---- MODULE Spec2Model ----
(***************************************************************************)
(* pngme: the chunk-type identifier, the chunk record codec, the container *)
(* and the commands built on them.                                         *)
(*                                                                         *)
(* Values.  A byte is an integer 0..255.  A u32 is a record [hi, lo] of    *)
(* two 16-bit halves (TLC's integers are 32-bit signed, so a u32 such as   *)
(* the crc 2882656334 does not fit one integer).  A String is the sequence *)
(* of its UTF-8 bytes.  A Result is a record [tag, val, msg] with tag      *)
(* "Ok", "Err" (anyhow's bail!, msg the message) or "Panic" (an expect or  *)
(* a slice index out of range: the thread unwinds, no value is returned);  *)
(* val is Some(v) = <<v>> for Ok and None = <<>> otherwise, as an Option.  *)
(* usize is taken to be 64 bits wide, so 12 + (a u32) never wraps.         *)
(*                                                                         *)
(* The three layers do not share state, so each has its own specification  *)
(* over its own variables, the others staying at their initial values:     *)
(*   SpecChunkType  ChunkType::try_from and ChunkType::from_str            *)
(*   SpecChunk      Chunk::new, Chunk::as_bytes and Chunk::try_from        *)
(*   SpecPng        the container's operations on a Png in memory          *)
(*   SpecCommands   encode, decode and remove on the file on disk          *)
(***************************************************************************)
EXTENDS Integers, Sequences, FiniteSets, TLC

VARIABLES
    value,      \* chunk_type.rs: the argument of the last ChunkType conversion
    conv,       \* which conversion ran last: "none", "try_from", "from_str"
    ct_result,  \* its Result
    chunk,      \* chunk.rs: Some(the Chunk value in hand), or None
    chunk_data, \* the byte sequence in hand: as_bytes' output or an input
    origin,     \* where chunk_data came from: "none", "as_bytes", "input"
    parsed,     \* Some(Result of Chunk::try_from(chunk_data)), or None
    png,        \* png.rs: Some(the chunks of the container in memory), or None
    call,       \* the last container operation and its outcome
    file,       \* commands.rs: the bytes of the file on disk
    cmd         \* the last command and its outcome

vars == <<value, conv, ct_result, chunk, chunk_data, origin, parsed, png, call, file, cmd>>

typeVars == <<value, conv, ct_result>>
chunkVars == <<chunk, chunk_data, origin, parsed>>
pngVars == <<png, call>>
cmdVars == <<file, cmd>>

----------------------------------------------------------------------------
(* Results *)

None == <<>>

Some(x) == <<x>>

Ok(v) == [tag |-> "Ok", val |-> Some(v), msg |-> ""]

Err(m) == [tag |-> "Err", val |-> None, msg |-> m]

Panic(m) == [tag |-> "Panic", val |-> None, msg |-> m]

IsOk(r) == r.tag = "Ok"

unwrap(r) == r.val[1]

(* The spec's error taxonomy, read off the message the code bails with. *)
ErrKind(r) ==
    IF r.tag # "Err" THEN "none"
    ELSE CASE r.msg = "Length of the chunk is not enough to convert to Chunk" -> "TooShort"
           [] r.msg = "Invalid chunk type inputted" -> "InvalidChunkType"
           [] r.msg = "The input bytes not equals to 4" -> "InvalidChunkType"
           [] r.msg = "Invalid ascii input" -> "InvalidChunkType"
           [] r.msg = "Invalid crc" -> "CrcMismatch"
           [] r.msg = "Invalid header" -> "BadSignature"
           [] r.msg = "Not found" -> "NotFound"
           [] OTHER -> "other"

----------------------------------------------------------------------------
(* u32 arithmetic on 16-bit halves *)

Half == 2 ^ 16

U32(n) == [hi |-> (n \div Half) % Half, lo |-> n % Half]

as_usize(u) == u.hi * Half + u.lo

to_be_bytes(u) == <<u.hi \div 256, u.hi % 256, u.lo \div 256, u.lo % 256>>

from_be_bytes(b) == [hi |-> b[1] * 256 + b[2], lo |-> b[3] * 256 + b[4]]

RECURSIVE xor(_, _)
xor(a, b) ==
    IF a = 0 THEN b
    ELSE IF b = 0 THEN a
    ELSE ((a + b) % 2) + 2 * xor(a \div 2, b \div 2)

xor32(u, v) == [hi |-> xor(u.hi, v.hi), lo |-> xor(u.lo, v.lo)]

shr32(u, k) ==
    [hi |-> u.hi \div (2 ^ k),
     lo |-> (u.lo \div (2 ^ k)) + (u.hi % (2 ^ k)) * (2 ^ (16 - k))]

----------------------------------------------------------------------------
(* CRC-32/ISO-HDLC, table driven as the crc crate's Crc<u32> computes it:  *)
(* poly 0x04C11DB7 reflected (0xEDB88320), init and xorout 0xFFFFFFFF.     *)

CRC_POLY_REFLECTED == [hi |-> 60856, lo |-> 33568]

CRC_INIT == [hi |-> 65535, lo |-> 65535]

CRC_XOROUT == [hi |-> 65535, lo |-> 65535]

RECURSIVE crc_table_entry(_, _)
crc_table_entry(r, n) ==
    IF n = 0 THEN r
    ELSE crc_table_entry(
            IF r.lo % 2 = 1 THEN xor32(shr32(r, 1), CRC_POLY_REFLECTED) ELSE shr32(r, 1),
            n - 1)

crc_table == [i \in 0..255 |-> crc_table_entry(U32(i), 8)]

crc_step(crc, b) == xor32(crc_table[xor(crc.lo % 256, b)], shr32(crc, 8))

(* The register after the bytes bs from index i on, one crc_step per byte  *)
(* in order.  TLC evaluates an operator's arguments on demand; the test on *)
(* the new register makes it compute each register before the next step.  *)
RECURSIVE crc_update(_, _, _)
crc_update(crc, bs, i) ==
    IF i > Len(bs) THEN crc
    ELSE LET next == crc_step(crc, bs[i])
         IN  IF next.lo >= 0 THEN crc_update(next, bs, i + 1) ELSE next

checksum(bs) == xor32(crc_update(CRC_INIT, bs, 1), CRC_XOROUT)

----------------------------------------------------------------------------
(* chunk_type.rs: struct ChunkType(u8, u8, u8, u8), here a 4-tuple of bytes *)

bytes(ct) == <<ct[1], ct[2], ct[3], ct[4]>>

is_valid_ascii(ct) ==
    \A i \in 1..4 : (bytes(ct)[i] >= 65 /\ bytes(ct)[i] <= 90)
                    \/ (bytes(ct)[i] >= 97 /\ bytes(ct)[i] <= 122)

is_critical(ct) == (ct[1] \div 32) % 2 = 0

is_public(ct) == (ct[2] \div 32) % 2 = 0

is_reserved_bit_valid(ct) == (ct[3] \div 32) % 2 = 0

is_safe_to_copy(ct) == (ct[4] \div 32) % 2 = 1

(* is_valid with the reserved-bit test left out. *)
is_valid_no_reserved(ct) == is_valid_ascii(ct)

is_valid(ct) == is_valid_ascii(ct) /\ is_reserved_bit_valid(ct)

ChunkType_try_from(v) ==
    LET ct == <<v[1], v[2], v[3], v[4]>>
    IN  IF is_valid(ct) THEN Ok(ct) ELSE Err("Invalid chunk type inputted")

(* from_str with the strict test of try_from in place of is_valid_ascii. *)
from_str_strict(s) ==
    IF Len(s) # 4 THEN Err("The input bytes not equals to 4")
    ELSE LET ct == <<s[1], s[2], s[3], s[4]>>
         IN  IF ~is_valid(ct) THEN Err("Invalid ascii input") ELSE Ok(ct)

ChunkType_from_str(s) ==
    IF Len(s) # 4 THEN Err("The input bytes not equals to 4")
    ELSE LET ct == <<s[1], s[2], s[3], s[4]>>
         IN  IF ~is_valid_ascii(ct) THEN Err("Invalid ascii input") ELSE Ok(ct)

(* `b as char` written to a String: the UTF-8 encoding of U+0000..U+00FF. *)
char_utf8(b) == IF b < 128 THEN <<b>> ELSE <<192 + (b \div 64), 128 + (b % 64)>>

(* Display writing only the first three characters. *)
to_string_3(ct) == char_utf8(ct[1]) \o char_utf8(ct[2]) \o char_utf8(ct[3])

to_string(ct) == char_utf8(ct[1]) \o char_utf8(ct[2]) \o char_utf8(ct[3]) \o char_utf8(ct[4])

----------------------------------------------------------------------------
(* chunk.rs: struct Chunk { length: u32, chunk_type, data: Vec<u8>, crc: u32 } *)

DATA_LENGTH == 4

CHUNK_TYPE_LENGTH == 4

CRC_LENGTH == 4

META_BYTES == DATA_LENGTH + CHUNK_TYPE_LENGTH + CRC_LENGTH

(* Chunk::new with the checksum taken over the data alone. *)
Chunk_new_crc_of_data(chunk_type, data) ==
    [length |-> U32(Len(data)),
     chunk_type |-> chunk_type,
     data |-> data,
     crc |-> checksum(data)]

Chunk_new(chunk_type, data) ==
    LET total_bytes == bytes(chunk_type) \o data
    IN  [length |-> U32(Len(data)),
         chunk_type |-> chunk_type,
         data |-> data,
         crc |-> checksum(total_bytes)]

as_bytes(c) ==
    to_be_bytes(c.length) \o bytes(c.chunk_type) \o c.data \o to_be_bytes(c.crc)

(* chunk_data[a..b], a and b counted from 0: a panic when b > len.         *)
slice_in_range(cd, b) == b <= Len(cd)

slice(cd, a, b) == SubSeq(cd, a + 1, b)

(* The comparison of the stored crc left out. *)
crc_unchecked(crc, create_chunk) == TRUE

crc_matches(crc, create_chunk) == crc = create_chunk.crc

Chunk_try_from(cd) ==
    IF Len(cd) < 12
    THEN Err("Length of the chunk is not enough to convert to Chunk")
    ELSE LET data_length == from_be_bytes(slice(cd, 0, DATA_LENGTH))
             n == as_usize(data_length)
         IN  IF ~slice_in_range(cd, DATA_LENGTH + CHUNK_TYPE_LENGTH + n)
             THEN Panic("range end index out of range for slice")
             ELSE IF ~slice_in_range(cd, META_BYTES + n)
             THEN Panic("range end index out of range for slice")
             ELSE LET message == slice(cd, DATA_LENGTH + CHUNK_TYPE_LENGTH,
                                       DATA_LENGTH + CHUNK_TYPE_LENGTH + n)
                      crc == from_be_bytes(slice(cd, DATA_LENGTH + CHUNK_TYPE_LENGTH + n,
                                                 META_BYTES + n))
                      chunk_type == ChunkType_try_from(
                                        slice(cd, DATA_LENGTH, DATA_LENGTH + CHUNK_TYPE_LENGTH))
                  IN  IF ~IsOk(chunk_type)
                      THEN Panic("Cannot convert")
                      ELSE LET create_chunk == Chunk_new(unwrap(chunk_type), message)
                           IN  IF crc_matches(crc, create_chunk)
                               THEN Ok(create_chunk)
                               ELSE Err("Invalid crc")

----------------------------------------------------------------------------
(* Bounds and input sets *)

MaxStrChars == 5

MaxDataLen == 2

(* Bytes around the edges of A-Z and a-z, both cases of one letter, a      *)
(* digit and a byte above 127.                                             *)
ProbeBytes == {49, 64, 65, 83, 90, 91, 96, 97, 115, 122, 123, 233}

ByteArrays == [1..4 -> ProbeBytes]

(* Characters of a label, each as its UTF-8 bytes: 1 R S s t u and e-acute. *)
ProbeChars == {<<49>>, <<82>>, <<83>>, <<115>>, <<116>>, <<117>>, <<195, 169>>}

RECURSIVE Strings(_)
Strings(n) ==
    IF n = 0 THEN {<<>>}
    ELSE LET shorter == Strings(n - 1)
         IN  shorter \cup {s \o c : s \in shorter, c \in ProbeChars}

StrInputs == Strings(MaxStrChars)

RuSt == <<82, 117, 83, 116>>

Rust == <<82, 117, 115, 116>>

RuSx == <<82, 117, 83, 120>>

Ru1t == <<82, 117, 49, 116>>

TypeLabels == {RuSt, Rust, RuSx, Ru1t}

(* Every ChunkType a caller can hold: from try_from or from from_str.      *)
ChunkTypes ==
    {unwrap(ChunkType_try_from(l)) : l \in {x \in TypeLabels : IsOk(ChunkType_try_from(x))}}
    \cup {unwrap(ChunkType_from_str(l)) : l \in {x \in TypeLabels : IsOk(ChunkType_from_str(x))}}

DataBytes == {65, 255}

RECURSIVE SeqsUpTo(_, _)
SeqsUpTo(S, n) ==
    IF n = 0 THEN {<<>>}
    ELSE LET shorter == SeqsUpTo(S, n - 1)
         IN  shorter \cup {s \o <<b>> : s \in shorter, b \in S}

Datas == SeqsUpTo(DataBytes, MaxDataLen)

(* The chunk of the source's tests: type "RuSt", the 42 bytes of          *)
(* "This is where your secret message will be!", crc 2882656334.           *)
TestMessage ==
    <<84, 104, 105, 115, 32, 105, 115, 32, 119, 104, 101, 114, 101, 32, 121, 111, 117,
      114, 32, 115, 101, 99, 114, 101, 116, 32, 109, 101, 115, 115, 97, 103, 101, 32,
      119, 105, 108, 108, 32, 98, 101, 33>>

TestCrc == [hi |-> 43985, lo |-> 55374]

TestCrcInvalid == [hi |-> 43985, lo |-> 55373]

(* Length fields: 0 .. MaxDataLen + 1 and 65536 (a nonzero high half).     *)
LenFields == {U32(n) : n \in 0..(MaxDataLen + 1)} \cup {[hi |-> 1, lo |-> 0]}

succ32(u) ==
    IF u.lo = Half - 1 THEN [hi |-> (u.hi + 1) % Half, lo |-> 0]
    ELSE [hi |-> u.hi, lo |-> u.lo + 1]

CrcFields(t, d) == {checksum(t \o d), succ32(checksum(t \o d)), U32(0)}

RawChunk(l, t, d, c) == to_be_bytes(l) \o t \o d \o to_be_bytes(c)

(* Byte sequences handed to the chunk parser: a length field, four type    *)
(* bytes, data and a crc field chosen independently, then cut short or     *)
(* followed by one more byte.                                              *)
ChunkInputs ==
    UNION { UNION {
        LET raw == RawChunk(l, td[1], td[2], c)
        IN  {SubSeq(raw, 1, n) : n \in 0..Len(raw)} \cup {raw \o <<0>>}
        : l \in LenFields, c \in CrcFields(td[1], td[2]) }
        : td \in TypeLabels \X Datas }
    \cup {RawChunk(U32(Len(TestMessage)), RuSt, TestMessage, c) : c \in {TestCrc, TestCrcInvalid}}

----------------------------------------------------------------------------
(* ChunkType conversions, one call per behaviour *)

InitIdle ==
    /\ value = <<>> /\ conv = "none" /\ ct_result = None
    /\ chunk = None /\ chunk_data = <<>> /\ origin = "none" /\ parsed = None
    /\ png = None /\ call = [op |-> "none"]
    /\ file = <<>> /\ cmd = [op |-> "none"]

TryFrom ==
    /\ conv = "none"
    /\ \E v \in ByteArrays :
        /\ value' = v
        /\ conv' = "try_from"
        /\ ct_result' = Some(ChunkType_try_from(v))
    /\ UNCHANGED <<chunkVars, pngVars, cmdVars>>

FromStr ==
    /\ conv = "none"
    /\ \E s \in StrInputs :
        /\ value' = s
        /\ conv' = "from_str"
        /\ ct_result' = Some(ChunkType_from_str(s))
    /\ UNCHANGED <<chunkVars, pngVars, cmdVars>>

NextChunkType == TryFrom \/ FromStr

SpecChunkType == InitIdle /\ [][NextChunkType]_vars

----------------------------------------------------------------------------
(* Chunk construction, serialization and parsing.  A behaviour follows one *)
(* value: a chunk is built or bytes are parsed from the idle state, and a  *)
(* parsed chunk may be kept and serialized again.                          *)

ChunkIdle == chunk = None /\ origin = "none" /\ parsed = None

New ==
    /\ ChunkIdle
    /\ \E t \in ChunkTypes, d \in Datas \cup {TestMessage} :
        chunk' = Some(Chunk_new(t, d))
    /\ UNCHANGED <<chunk_data, origin, parsed, typeVars, pngVars, cmdVars>>

AsBytes ==
    /\ chunk # None
    /\ origin = "none"
    /\ chunk_data' = as_bytes(chunk[1])
    /\ origin' = "as_bytes"
    /\ UNCHANGED <<chunk, parsed, typeVars, pngVars, cmdVars>>

TryFromSerialized ==
    /\ origin = "as_bytes"
    /\ parsed = None
    /\ parsed' = Some(Chunk_try_from(chunk_data))
    /\ UNCHANGED <<chunk, chunk_data, origin, typeVars, pngVars, cmdVars>>

TryFromBytes ==
    /\ ChunkIdle
    /\ \E bs \in ChunkInputs :
        /\ chunk_data' = bs
        /\ origin' = "input"
        /\ parsed' = Some(Chunk_try_from(bs))
    /\ UNCHANGED <<chunk, typeVars, pngVars, cmdVars>>

Keep ==
    /\ origin = "input"
    /\ parsed # None
    /\ IsOk(parsed[1])
    /\ chunk' = Some(unwrap(parsed[1]))
    /\ chunk_data' = <<>>
    /\ origin' = "none"
    /\ parsed' = None
    /\ UNCHANGED <<typeVars, pngVars, cmdVars>>

NextChunk == New \/ AsBytes \/ TryFromSerialized \/ TryFromBytes \/ Keep

SpecChunk == InitIdle /\ [][NextChunk]_vars

----------------------------------------------------------------------------
(* png.rs: struct Png { header, chunks }.  The file is not among the       *)
(* sources; the container is modelled from its specification (section 4.3) *)
(* and from the calls commands.rs makes on it.                             *)

STANDARD_HEADER == <<137, 80, 78, 71, 13, 10, 26, 10>>

RECURSIVE parse_chunks(_, _, _)
parse_chunks(bs, cursor, chunks) ==
    IF cursor > Len(bs) THEN Ok(chunks)
    ELSE LET r == Chunk_try_from(SubSeq(bs, cursor, Len(bs)))
         IN  IF ~IsOk(r) THEN r
             ELSE parse_chunks(bs, cursor + META_BYTES + as_usize(unwrap(r).length),
                               Append(chunks, unwrap(r)))

Png_try_from(bs) ==
    IF Len(bs) < 8 \/ SubSeq(bs, 1, 8) # STANDARD_HEADER
    THEN Err("Invalid header")
    ELSE LET r == parse_chunks(bs, 9, <<>>)
         IN  IF ~IsOk(r) THEN r
             ELSE Ok([header |-> SubSeq(bs, 1, 8), chunks |-> unwrap(r)])

RECURSIVE concat_chunks(_)
concat_chunks(chunks) ==
    IF chunks = <<>> THEN <<>>
    ELSE as_bytes(Head(chunks)) \o concat_chunks(Tail(chunks))

Png_as_bytes(p) == p.header \o concat_chunks(p.chunks)

append_chunk(p, c) == [p EXCEPT !.chunks = Append(p.chunks, c)]

(* The index of the first chunk whose type reads as type_text, or 0.       *)
position(p, type_text) ==
    LET hits == {i \in 1..Len(p.chunks) : to_string(p.chunks[i].chunk_type) = type_text}
    IN  IF hits = {} THEN 0 ELSE CHOOSE i \in hits : \A j \in hits : i <= j

chunk_by_type(p, type_text) ==
    IF position(p, type_text) = 0 THEN None
    ELSE Some(p.chunks[position(p, type_text)])

remove_chunk(p, type_text) ==
    LET i == position(p, type_text)
    IN  IF i = 0 THEN [res |-> Err("Not found"), png |-> p]
        ELSE [res |-> Ok(p.chunks[i]),
              png |-> [p EXCEPT !.chunks =
                          SubSeq(p.chunks, 1, i - 1) \o SubSeq(p.chunks, i + 1, Len(p.chunks))]]

MaxChunks == 3

Payloads == {<<>>, <<65>>}

(* The records a caller can append: Chunk::new of an obtainable type.      *)
AppendChunks == {Chunk_new(t, d) : t \in ChunkTypes, d \in Payloads}

(* Files given to the container parser: the header alone or followed by    *)
(* one well-formed record, and files with a wrong signature, a cut record, *)
(* a wrong crc or a type that try_from refuses.                            *)
PngInputs ==
    {STANDARD_HEADER}
    \cup {STANDARD_HEADER \o as_bytes(Chunk_new(RuSt, d)) : d \in Payloads}
    \cup {<<0>> \o SubSeq(STANDARD_HEADER, 2, 8) \o as_bytes(Chunk_new(RuSt, <<>>)),
          SubSeq(STANDARD_HEADER, 1, 7),
          STANDARD_HEADER \o SubSeq(as_bytes(Chunk_new(RuSt, <<65>>)), 1, 11),
          STANDARD_HEADER \o RawChunk(U32(0), RuSt, <<>>, U32(0)),
          STANDARD_HEADER \o as_bytes(Chunk_new(RuSt, <<>>)) \o as_bytes(Chunk_new(Rust, <<>>))}

(* What a caller sees of a Result: Ok, the error message, or a panic. *)
Outcome(r) == [tag |-> r.tag, msg |-> r.msg]

(* Whether the container holds a record of type t (recorded with a call). *)
Holds(p, t) == \E i \in 1..Len(p.chunks) : p.chunks[i].chunk_type = t

PngTryFrom ==
    /\ png = None
    /\ \E bs \in PngInputs :
        LET r == Png_try_from(bs)
        IN  /\ png' = IF IsOk(r) THEN Some(unwrap(r)) ELSE None
            /\ call' = [op |-> "try_from", bytes |-> bs, res |-> Outcome(r)]
    /\ UNCHANGED <<typeVars, chunkVars, cmdVars>>

(* call.fresh: the container held no record of the appended type before.   *)
AppendChunk ==
    /\ png # None
    /\ Len(png[1].chunks) < MaxChunks
    /\ \E c \in AppendChunks :
        /\ png' = Some(append_chunk(png[1], c))
        /\ call' = [op |-> "append_chunk", T |-> c.chunk_type, rec |-> c,
                    fresh |-> ~Holds(png[1], c.chunk_type)]
    /\ UNCHANGED <<typeVars, chunkVars, cmdVars>>

(* call.follows: the call before was append_chunk of a record of type T;   *)
(* call.fresh: and no record of type T was held before that append.        *)
RemoveChunk ==
    /\ png # None
    /\ \E t \in ChunkTypes :
        LET r == remove_chunk(png[1], to_string(t))
        IN  /\ png' = Some(r.png)
            /\ call' = [op |-> "remove_chunk", T |-> t, res |-> r.res,
                        follows |-> call.op = "append_chunk" /\ call.T = t,
                        fresh |-> call.op = "append_chunk" /\ call.T = t /\ call.fresh]
    /\ UNCHANGED <<typeVars, chunkVars, cmdVars>>

ChunkByType ==
    /\ png # None
    /\ \E t \in ChunkTypes :
        call' = [op |-> "chunk_by_type", T |-> t, found |-> chunk_by_type(png[1], to_string(t))]
    /\ UNCHANGED <<png, typeVars, chunkVars, cmdVars>>

PngAsBytes ==
    /\ png # None
    /\ call' = [op |-> "as_bytes", bytes |-> Png_as_bytes(png[1])]
    /\ UNCHANGED <<png, typeVars, chunkVars, cmdVars>>

PngTryFromSerialized ==
    /\ png # None
    /\ call.op = "as_bytes"
    /\ call' = [op |-> "try_from_serialized", bytes |-> call.bytes,
                res |-> Png_try_from(call.bytes)]
    /\ UNCHANGED <<png, typeVars, chunkVars, cmdVars>>

NextPng ==
    \/ PngTryFrom
    \/ AppendChunk
    \/ RemoveChunk
    \/ ChunkByType
    \/ PngAsBytes
    \/ PngTryFromSerialized

SpecPng == InitIdle /\ [][NextPng]_vars

----------------------------------------------------------------------------
(* commands.rs: each command reads the file, parses it, acts and (encode,  *)
(* remove) writes the container back.  A `?` returns the error and a panic *)
(* unwinds, both before fs::write, so the file is then left as it was.     *)
(* Reading and writing the file themselves are taken to succeed.           *)

chunk_parser(s) ==
    IF IsOk(ChunkType_from_str(s)) THEN ChunkType_from_str(s)
    ELSE Err(ChunkType_from_str(s).msg)

(* The chunk types clap's value parser lets through to a command.          *)
TypeArgs == {s \in TypeLabels : IsOk(chunk_parser(s))}

Messages == Payloads

InitFiles == PngInputs

InitCommands ==
    /\ value = <<>> /\ conv = "none" /\ ct_result = None
    /\ chunk = None /\ chunk_data = <<>> /\ origin = "none" /\ parsed = None
    /\ png = None /\ call = [op |-> "none"]
    /\ file \in InitFiles /\ cmd = [op |-> "none"]

encode ==
    /\ \E s \in TypeArgs, message \in Messages :
        LET chunk_type == unwrap(chunk_parser(s))
            r == Png_try_from(file)
        IN  IF ~IsOk(r)
            THEN /\ cmd' = [op |-> "encode", T |-> chunk_type, res |-> Outcome(r)]
                 /\ file' = file
            ELSE /\ Len(unwrap(r).chunks) < MaxChunks
                 /\ file' = Png_as_bytes(append_chunk(unwrap(r), Chunk_new(chunk_type, message)))
                 /\ cmd' = [op |-> "encode", T |-> chunk_type, res |-> Outcome(Ok(<<>>))]
    /\ UNCHANGED <<typeVars, chunkVars, pngVars>>

decode ==
    /\ \E s \in TypeArgs :
        LET chunk_type == unwrap(chunk_parser(s))
            r == Png_try_from(file)
        IN  cmd' = [op |-> "decode", T |-> chunk_type,
                    res |-> IF ~IsOk(r) THEN Outcome(r)
                            ELSE IF chunk_by_type(unwrap(r), to_string(chunk_type)) = None
                            THEN Outcome(Err("Not found"))
                            ELSE Outcome(Ok(<<>>))]
    /\ UNCHANGED <<file, typeVars, chunkVars, pngVars>>

remove ==
    /\ \E s \in TypeArgs :
        LET chunk_type == unwrap(chunk_parser(s))
            r == Png_try_from(file)
        IN  IF ~IsOk(r)
            THEN /\ cmd' = [op |-> "remove", T |-> chunk_type, res |-> Outcome(r)]
                 /\ file' = file
            ELSE LET removed == remove_chunk(unwrap(r), to_string(chunk_type))
                 IN  /\ cmd' = [op |-> "remove", T |-> chunk_type, res |-> Outcome(removed.res)]
                     /\ file' = IF IsOk(removed.res) THEN Png_as_bytes(removed.png) ELSE file
    /\ UNCHANGED <<typeVars, chunkVars, pngVars>>

NextCommands == encode \/ decode \/ remove

SpecCommands == InitCommands /\ [][NextCommands]_vars

----------------------------------------------------------------------------
(* Properties of the ChunkType conversions (SpecChunkType) *)

AsciiLetter(b) == (b >= 65 /\ b <= 90) \/ (b >= 97 /\ b <= 122)

Bit5(b) == (b \div 32) % 2

(* A character starts at every byte that is not a UTF-8 continuation byte. *)
CharCount(s) == Cardinality({i \in 1..Len(s) : ~(s[i] >= 128 /\ s[i] <= 191)})

FourAsciiLetters(s) == CharCount(s) = 4 /\ \A i \in 1..Len(s) : AsciiLetter(s[i])

(* C4: ChunkType::try_from(b) succeeds iff all four bytes of b are ASCII   *)
(* letters and bit 5 of b[2] is 0; on success bytes() gives b back, and    *)
(* otherwise the result is an InvalidChunkType error.                      *)
C4_StrictValidity ==
    conv = "try_from" =>
        LET r == ct_result[1]
        IN  /\ IsOk(r) <=> ((\A i \in 1..4 : AsciiLetter(value[i])) /\ Bit5(value[3]) = 0)
            /\ IsOk(r) => bytes(unwrap(r)) = value
            /\ ~IsOk(r) => ErrKind(r) = "InvalidChunkType"

(* Four letters with the reserved bit set were given to try_from and refused. *)
C4_Witness ==
    /\ conv = "try_from"
    /\ \A i \in 1..4 : AsciiLetter(value[i])
    /\ Bit5(value[3]) = 1
    /\ ErrKind(ct_result[1]) = "InvalidChunkType"

(* C5: ChunkType::from_str(s) fails with InvalidChunkType unless s is      *)
(* exactly four ASCII letters and succeeds otherwise, the reserved bit not *)
(* being looked at: "Rust" gives an identifier whose reserved bit is not   *)
(* valid and which is not valid, and "Ru1t" is refused.                    *)
C5_LooseValidity ==
    conv = "from_str" =>
        LET r == ct_result[1]
        IN  /\ IsOk(r) <=> FourAsciiLetters(value)
            /\ IsOk(r) => bytes(unwrap(r)) = value
            /\ ~IsOk(r) => ErrKind(r) = "InvalidChunkType"
            /\ value = Rust =>
                    IsOk(r) /\ ~is_reserved_bit_valid(unwrap(r)) /\ ~is_valid(unwrap(r))
            /\ value = Ru1t => ~IsOk(r)

(* from_str was given "Rust" and returned an identifier. *)
C5_Witness == conv = "from_str" /\ value = Rust /\ IsOk(ct_result[1])

----------------------------------------------------------------------------
(* Properties of the chunk codec (SpecChunk) *)

(* The fields of a byte sequence of at least 12 bytes, read by position.   *)
DeclaredLength(cd) == cd[1] * (2 ^ 24) + cd[2] * (2 ^ 16) + cd[3] * 256 + cd[4]

TypeField(cd) == SubSeq(cd, 5, 8)

DataField(cd) == SubSeq(cd, 9, 8 + DeclaredLength(cd))

StoredCrc(cd) == SubSeq(cd, 9 + DeclaredLength(cd), 12 + DeclaredLength(cd))

Fits(cd) == Len(cd) >= 12 /\ 12 + DeclaredLength(cd) <= Len(cd)

StrictType(t) == (\A i \in 1..4 : AsciiLetter(t[i])) /\ Bit5(t[3]) = 0

ChunkInvariant(c) ==
    /\ as_usize(c.length) = Len(c.data)
    /\ c.crc = checksum(bytes(c.chunk_type) \o c.data)

(* C1: parsing the bytes as_bytes() gives for a chunk in hand (built by    *)
(* Chunk::new from any obtainable ChunkType, or kept from a parse) returns *)
(* a record with the same length, type, data and crc.                      *)
C1_ChunkRoundTrip ==
    (origin = "as_bytes" /\ parsed # None) =>
        /\ IsOk(parsed[1])
        /\ unwrap(parsed[1]) = chunk[1]

(* C6: every Chunk value, built by Chunk::new or returned by a parse, has  *)
(* length = the number of data bytes and crc = CRC32(type bytes ++ data),  *)
(* which for the chunk of the source's tests is 42 and 2882656334;         *)
(* two chunks with equal type and data have equal length and crc.          *)
C6_ChunkInvariant ==
    /\ chunk # None => ChunkInvariant(chunk[1])
    /\ (chunk # None /\ chunk[1].chunk_type = RuSt /\ chunk[1].data = TestMessage)
        => (as_usize(chunk[1].length) = 42 /\ chunk[1].crc = TestCrc)
    /\ (parsed # None /\ IsOk(parsed[1])) => ChunkInvariant(unwrap(parsed[1]))
    /\ (chunk # None /\ parsed # None /\ IsOk(parsed[1])
            /\ chunk[1].chunk_type = unwrap(parsed[1]).chunk_type
            /\ chunk[1].data = unwrap(parsed[1]).data)
        => (chunk[1].length = unwrap(parsed[1]).length /\ chunk[1].crc = unwrap(parsed[1]).crc)

(* A chunk with two data bytes was built, serialized and parsed back.      *)
C6_Witness ==
    /\ chunk # None
    /\ Len(chunk[1].data) = 2
    /\ parsed # None
    /\ IsOk(parsed[1])
    /\ Len(unwrap(parsed[1]).data) = 2

(* C7: a byte sequence of fewer than 12 bytes, or one whose length field   *)
(* declares more data than remains before the crc, makes the chunk parser  *)
(* return a TooShort error value.                                          *)
C7_Truncation ==
    (parsed # None /\ origin = "input" /\ ~Fits(chunk_data)) =>
        ErrKind(parsed[1]) = "TooShort"

(* C8: on bytes whose length, type and data fields are well formed the     *)
(* chunk parser returns a record iff the stored crc is CRC32(type bytes ++ *)
(* data bytes), and a CrcMismatch error for any other stored crc.          *)
C8_CrcCheck ==
    (parsed # None /\ origin = "input" /\ Fits(chunk_data)
        /\ StrictType(TypeField(chunk_data))) =>
        LET good == StoredCrc(chunk_data)
                    = to_be_bytes(checksum(TypeField(chunk_data) \o DataField(chunk_data)))
        IN  /\ IsOk(parsed[1]) <=> good
            /\ IsOk(parsed[1]) =>
                    /\ bytes(unwrap(parsed[1]).chunk_type) = TypeField(chunk_data)
                    /\ unwrap(parsed[1]).data = DataField(chunk_data)
                    /\ to_be_bytes(unwrap(parsed[1]).crc) = StoredCrc(chunk_data)
            /\ ~good => ErrKind(parsed[1]) = "CrcMismatch"

(* Well-formed bytes with one data byte and a stored crc one too high were *)
(* refused with CrcMismatch.                                               *)
C8_Witness ==
    /\ parsed # None
    /\ origin = "input"
    /\ Fits(chunk_data)
    /\ DeclaredLength(chunk_data) = 1
    /\ StrictType(TypeField(chunk_data))
    /\ StoredCrc(chunk_data)
        = to_be_bytes(succ32(checksum(TypeField(chunk_data) \o DataField(chunk_data))))
    /\ ErrKind(parsed[1]) = "CrcMismatch"

(* C9: when the four type bytes of a record fail try_from's validation the *)
(* chunk parser returns an InvalidChunkType error value.                   *)
C9_InvalidTypeOnParse ==
    (parsed # None /\ origin = "input" /\ Fits(chunk_data)
        /\ ~StrictType(TypeField(chunk_data))) =>
        ErrKind(parsed[1]) = "InvalidChunkType"

----------------------------------------------------------------------------
(* Properties of the container (SpecPng) and of the commands (SpecCommands) *)

(* C2: for every container reached from a successful parse by append and   *)
(* remove operations, parsing its serialization succeeds and gives a       *)
(* container with the same signature and the same chunks in the same order. *)
C2_ContainerRoundTrip ==
    call.op = "try_from_serialized" =>
        /\ IsOk(call.res)
        /\ unwrap(call.res).header = png[1].header
        /\ unwrap(call.res).chunks = png[1].chunks

(* C3 as stated: right after append(r), r of type T, findByType(T) returns *)
(* r; and after a removeByType(T) that follows, it returns "not found".    *)
C3_LookupRemoval_AsStated ==
    /\ call.op = "append_chunk" =>
            chunk_by_type(png[1], to_string(call.T)) = Some(call.rec)
    /\ (call.op = "remove_chunk" /\ call.follows) =>
            chunk_by_type(png[1], to_string(call.T)) = None

(* C3 as amended: when the container holds no record of type T, right      *)
(* after append(r), r of type T, findByType(T) returns r; and after a      *)
(* removeByType(T) that follows directly, which succeeds and returns r,    *)
(* findByType(T) returns "not found".                                      *)
C3_LookupRemoval ==
    /\ (call.op = "append_chunk" /\ call.fresh) =>
            chunk_by_type(png[1], to_string(call.T)) = Some(call.rec)
    /\ (call.op = "remove_chunk" /\ call.fresh) =>
            /\ IsOk(call.res)
            /\ unwrap(call.res).chunk_type = call.T
            /\ chunk_by_type(png[1], to_string(call.T)) = None

(* A record of a type the container did not hold was appended behind two   *)
(* records of other types and then removed by type.                        *)
C3_Witness ==
    /\ call.op = "remove_chunk"
    /\ call.fresh
    /\ IsOk(call.res)
    /\ png # None
    /\ Len(png[1].chunks) = 2

(* C10: the bytes encode writes, for a file that parses, a chunk type      *)
(* from_str accepts and any message, parse as a container again.           *)
C10_EncodeKeepsParseable ==
    (cmd.op = "encode" /\ cmd.res.tag = "Ok") => IsOk(Png_try_from(file))

====
